---- MODULE Spec2Model ----
(***************************************************************************)
(* A model of aas/adapter/xml/xml_serialization.py: the enumeration token  *)
(* tables and abstract_classes_to_xml, which walks the capability classes   *)
(* an object is an instance of and collects one list of ElementTree         *)
(* elements.                                                                *)
(*                                                                          *)
(* Reading of the source.  The function writes `et.text(value)` where       *)
(* ElementTree only has the attribute `et.text`; as written, Python raises  *)
(* "TypeError: 'NoneType' object is not callable" at the first such call    *)
(* (and the module itself names Dict, inspect and submodel without          *)
(* importing them).  The model reads `et.text(value)` as the assignment     *)
(* `et.text = value`, the only reading under which the function builds any  *)
(* element; the value stored is the value the source passes, unconverted.   *)
(* The classes of aas.model.base and the registry KEY_ELEMENTS_CLASSES are  *)
(* not part of the sources at hand; their hierarchy is taken from the       *)
(* specification.                                                           *)
(***************************************************************************)
EXTENDS Integers, Sequences, FiniteSets, TLC

VARIABLES obj, pc, elements, result, raised, calls, previous

vars == <<obj, pc, elements, result, raised, calls, previous>>

\* ------------------------------------------------------------------ bounds
\* The number of direct base classes of the class of the serialized object.
MaxBases == 2
\* The number of times the same object is serialized.
MaxCalls == 2

\* ------------------------------------------------------------ small helpers
Range(s) == {s[i] : i \in 1..Len(s)}

Min(S) == CHOOSE x \in S : \A y \in S : x <= y

NonEmpty(s) == Len(s) > 0

\* ------------------------------------------------------------ Python values
\* A Python value is a record of its type and its content.
PyNone == [kind |-> "NoneType", val |-> "None"]

Str(s) == [kind |-> "str", val |-> s]

\* A member of an Enum class, e.g. ModelingKind.TEMPLATE: not a string.
EnumMember(m) == [kind |-> "enum", val |-> m]

\* A set or a LangStringSet, by its content.
Collection(c) == [kind |-> "collection", val |-> c]

\* A Reference object.
Reference(r) == [kind |-> "Reference", val |-> r]

\* The dict {'name': n}.
NameDict(n) == [kind |-> "dict", val |-> n]

\* The attribute does not exist on the object (its class lacks the capability).
Missing == [kind |-> "missing", val |-> ""]

\* Python truthiness, as `if value:` tests it.
Truthy(v) ==
    /\ v.kind # "NoneType"
    /\ ~(v.kind = "str" /\ v.val = "")
    /\ ~(v.kind = "collection" /\ v.val = "")

\* ------------------------------------------------------- enumeration tables
\* The enumerations of aas.model, by their members.
ModelingKind == {"ModelingKind.TEMPLATE", "ModelingKind.INSTANCE"}

AssetKind == {"AssetKind.TYPE", "AssetKind.INSTANCE"}

KeyType ==
    {"KeyType.CUSTOM", "KeyType.IRDI", "KeyType.IRI", "KeyType.IDSHORT",
     "KeyType.FRAGMENT_ID"}

IdentifierType ==
    {"IdentifierType.CUSTOM", "IdentifierType.IRDI", "IdentifierType.IRI"}

EntityType == {"EntityType.CO_MANAGED_ENTITY", "EntityType.SELF_MANAGED_ENTITY"}

\* The members of KeyElements the module refers to.
KeyElements ==
    {"KeyElements.ASSET", "KeyElements.ASSET_ADMINISTRATION_SHELL",
     "KeyElements.CONCEPT_DESCRIPTION", "KeyElements.SUBMODEL",
     "KeyElements.ANNOTATED_RELATIONSHIP_ELEMENT", "KeyElements.BASIC_EVENT",
     "KeyElements.BLOB", "KeyElements.CAPABILITY",
     "KeyElements.CONCEPT_DICTIONARY", "KeyElements.DATA_ELEMENT",
     "KeyElements.ENTITY", "KeyElements.EVENT", "KeyElements.FILE",
     "KeyElements.MULTI_LANGUAGE_PROPERTY", "KeyElements.OPERATION",
     "KeyElements.PROPERTY", "KeyElements.RANGE",
     "KeyElements.REFERENCE_ELEMENT", "KeyElements.RELATIONSHIP_ELEMENT",
     "KeyElements.SUBMODEL_ELEMENT", "KeyElements.SUBMODEL_ELEMENT_COLLECTION",
     "KeyElements.VIEW", "KeyElements.GLOBAL_REFERENCE",
     "KeyElements.FRAGMENT_REFERENCE"}

\* A dict literal is the sequence of its key: value items, in source order.
MODELING_KIND ==
    << <<"ModelingKind.TEMPLATE", "Template">>,
       <<"ModelingKind.INSTANCE", "Instance">> >>

ASSET_KIND ==
    << <<"AssetKind.TYPE", "Type">>,
       <<"AssetKind.INSTANCE", "Instance">> >>

\* KEY_ELEMENTS without its last two items, the two kinds of reference.
KEY_ELEMENTS_Short ==
    << <<"KeyElements.ASSET", "Asset">>,
       <<"KeyElements.ASSET_ADMINISTRATION_SHELL", "AssetAdministrationShell">>,
       <<"KeyElements.CONCEPT_DESCRIPTION", "ConceptDescription">>,
       <<"KeyElements.SUBMODEL", "Submodel">>,
       <<"KeyElements.ANNOTATED_RELATIONSHIP_ELEMENT", "AnnotatedRelationshipElement">>,
       <<"KeyElements.BASIC_EVENT", "BasicEvent">>,
       <<"KeyElements.BLOB", "Blob">>,
       <<"KeyElements.CAPABILITY", "Capability">>,
       <<"KeyElements.CONCEPT_DICTIONARY", "ConceptDictionary">>,
       <<"KeyElements.DATA_ELEMENT", "DataElement">>,
       <<"KeyElements.ENTITY", "Entity">>,
       <<"KeyElements.EVENT", "Event">>,
       <<"KeyElements.FILE", "File">>,
       <<"KeyElements.MULTI_LANGUAGE_PROPERTY", "MultiLanguageProperty">>,
       <<"KeyElements.OPERATION", "Operation">>,
       <<"KeyElements.PROPERTY", "Property">>,
       <<"KeyElements.RANGE", "Range">>,
       <<"KeyElements.REFERENCE_ELEMENT", "ReferenceElement">>,
       <<"KeyElements.RELATIONSHIP_ELEMENT", "RelationshipElement">>,
       <<"KeyElements.SUBMODEL_ELEMENT", "SubmodelElement">>,
       <<"KeyElements.SUBMODEL_ELEMENT_COLLECTION", "SubmodelElementCollection">>,
       <<"KeyElements.VIEW", "View">> >>

KEY_ELEMENTS ==
    << <<"KeyElements.ASSET", "Asset">>,
       <<"KeyElements.ASSET_ADMINISTRATION_SHELL", "AssetAdministrationShell">>,
       <<"KeyElements.CONCEPT_DESCRIPTION", "ConceptDescription">>,
       <<"KeyElements.SUBMODEL", "Submodel">>,
       <<"KeyElements.ANNOTATED_RELATIONSHIP_ELEMENT", "AnnotatedRelationshipElement">>,
       <<"KeyElements.BASIC_EVENT", "BasicEvent">>,
       <<"KeyElements.BLOB", "Blob">>,
       <<"KeyElements.CAPABILITY", "Capability">>,
       <<"KeyElements.CONCEPT_DICTIONARY", "ConceptDictionary">>,
       <<"KeyElements.DATA_ELEMENT", "DataElement">>,
       <<"KeyElements.ENTITY", "Entity">>,
       <<"KeyElements.EVENT", "Event">>,
       <<"KeyElements.FILE", "File">>,
       <<"KeyElements.MULTI_LANGUAGE_PROPERTY", "MultiLanguageProperty">>,
       <<"KeyElements.OPERATION", "Operation">>,
       <<"KeyElements.PROPERTY", "Property">>,
       <<"KeyElements.RANGE", "Range">>,
       <<"KeyElements.REFERENCE_ELEMENT", "ReferenceElement">>,
       <<"KeyElements.RELATIONSHIP_ELEMENT", "RelationshipElement">>,
       <<"KeyElements.SUBMODEL_ELEMENT", "SubmodelElement">>,
       <<"KeyElements.SUBMODEL_ELEMENT_COLLECTION", "SubmodelElementCollection">>,
       <<"KeyElements.VIEW", "View">>,
       <<"KeyElements.GLOBAL_REFERENCE", "GlobalReference">>,
       <<"KeyElements.FRAGMENT_REFERENCE", "FragmentReference">> >>

\* KEY_TYPES with the token of IRI mistyped as that of IRDI.
KEY_TYPES_Duplicated ==
    << <<"KeyType.CUSTOM", "Custom">>,
       <<"KeyType.IRDI", "IRDI">>,
       <<"KeyType.IRI", "IRDI">>,
       <<"KeyType.IDSHORT", "IdShort">>,
       <<"KeyType.FRAGMENT_ID", "FragmentId">> >>

KEY_TYPES ==
    << <<"KeyType.CUSTOM", "Custom">>,
       <<"KeyType.IRDI", "IRDI">>,
       <<"KeyType.IRI", "IRI">>,
       <<"KeyType.IDSHORT", "IdShort">>,
       <<"KeyType.FRAGMENT_ID", "FragmentId">> >>

IDENTIFIER_TYPES ==
    << <<"IdentifierType.CUSTOM", "Custom">>,
       <<"IdentifierType.IRDI", "IRDI">>,
       <<"IdentifierType.IRI", "IRI">> >>

ENTITY_TYPES ==
    << <<"EntityType.CO_MANAGED_ENTITY", "CoManagedEntity">>,
       <<"EntityType.SELF_MANAGED_ENTITY", "SelfManagedEntity">> >>

\* table[key] of a dict: the value of the last item with that key.
Keys(table) == {table[i][1] : i \in 1..Len(table)}

Lookup(table, key) ==
    LET at == {i \in 1..Len(table) : table[i][1] = key}
    IN  table[CHOOSE i \in at : \A j \in at : j <= i][2]

\* ------------------------------------------------------------ class lattice
\* The six capability classes of aas.model.base that the function tests for.
Capabilities ==
    {"Referable", "Identifiable", "HasDataSpecification", "HasSemantics",
     "HasKind", "Qualifiable"}

\* model.KEY_ELEMENTS_CLASSES: the classes registered as schema element types.
\* The registry is defined in aas.model; three of the classes KEY_ELEMENTS names
\* stand for it: one Identifiable, and two of which one derives from the other.
KEY_ELEMENTS_CLASSES == {"Asset", "SubmodelElement", "Property"}

\* The classes an object's class can derive from.
Classes ==
    Capabilities \cup {"Asset", "Property", "AccessPermissionRule", "Permission"}

\* The direct base classes of a class, in declaration order.
\* AccessPermissionRule(base.Referable, base.Qualifiable) and Permission are the
\* classes of aas/model/security.py; Identifiable derives from Referable.
Bases(c) ==
    CASE c = "Identifiable" -> <<"Referable">>
      [] c = "Asset" -> <<"Identifiable">>
      [] c = "SubmodelElement" -> <<"Referable">>
      [] c = "Property" -> <<"SubmodelElement">>
      [] c = "AccessPermissionRule" -> <<"Referable", "Qualifiable">>
      [] c = "object" -> <<>>
      [] OTHER -> <<"object">>

\* The marker a linearization carries when Python finds no consistent order.
MroConflict == "<inconsistent MRO>"

InTail(c, s) == \E i \in 2..Len(s) : s[i] = c

\* The merge step of Python's C3 linearization.
RECURSIVE C3Merge(_)
C3Merge(seqs) ==
    LET ne == SelectSeq(seqs, NonEmpty)
    IN  IF Len(ne) = 0 THEN <<>>
        ELSE LET good == {i \in 1..Len(ne) :
                             \A j \in 1..Len(ne) : ~InTail(ne[i][1], ne[j])}
             IN  IF good = {} THEN <<MroConflict>>
                 ELSE LET h == ne[Min(good)][1]
                          rest == [k \in 1..Len(ne) |->
                                     IF ne[k][1] = h THEN Tail(ne[k]) ELSE ne[k]]
                      IN  <<h>> \o C3Merge(rest)

\* The method resolution order of a class of the lattice.
RECURSIVE Linearize(_)
Linearize(c) ==
    LET b == Bases(c)
    IN  <<c>> \o C3Merge([i \in 1..Len(b) |-> Linearize(b[i])] \o <<b>>)

\* inspect.getmro(type(obj)) for an object whose class "ObjType" has the
\* direct bases `bases`.
GetMro(bases) ==
    LET b == IF bases = <<>> THEN <<"object">> ELSE bases
    IN  <<"ObjType">> \o C3Merge([i \in 1..Len(b) |-> Linearize(b[i])] \o <<b>>)

\* issubclass(c, d) for classes of the lattice.
IsSubclass(c, d) == d \in Range(Linearize(c))

\* The base lists Python accepts for a class statement: no class twice and a
\* consistent linearization.
BaseLists ==
    {b \in UNION {[1..n -> Classes] : n \in 0..MaxBases} :
        /\ \A i, j \in 1..Len(b) : i # j => b[i] # b[j]
        /\ MroConflict \notin Range(GetMro(b))}

\* ----------------------------------------------------------------- entities
\* The values each attribute takes; an attribute exists only on instances of
\* the capability class that declares it.
AttrValues(mro, cap, values) == IF cap \in Range(mro) THEN values ELSE {Missing}

NoAdministration == [present |-> FALSE, version |-> Missing, revision |-> Missing]

Administrations ==
    {NoAdministration} \cup
    {[present |-> TRUE, version |-> v, revision |-> r] :
        v \in {PyNone, Str("1")}, r \in {PyNone, Str("0")}}

EntitiesOfClass(b) ==
    LET mro == GetMro(b)
    IN  {[bases |-> b, mro |-> mro,
          id_short |-> ids, category |-> cat, description |-> des,
          id_type |-> idt, id |-> idv, administration |-> adm,
          data_specification |-> dsp, semantic_id |-> sem,
          kind |-> knd, qualifier |-> qua] :
            ids \in AttrValues(mro, "Referable", {Str(""), Str("MyAsset")}),
            cat \in AttrValues(mro, "Referable", {PyNone, Str("PARAMETER")}),
            des \in AttrValues(mro, "Referable", {PyNone, Collection("en: text")}),
            idt \in AttrValues(mro, "Identifiable",
                               {EnumMember(t) : t \in IdentifierType}),
            idv \in AttrValues(mro, "Identifiable", {Str(""), Str("urn:x")}),
            adm \in IF "Identifiable" \in Range(mro) THEN Administrations
                    ELSE {NoAdministration},
            dsp \in AttrValues(mro, "HasDataSpecification",
                               {Collection(""), Collection("spec")}),
            sem \in AttrValues(mro, "HasSemantics", {PyNone, Reference("sem")}),
            knd \in AttrValues(mro, "HasKind", {EnumMember(k) : k \in ModelingKind}),
            qua \in AttrValues(mro, "Qualifiable",
                               {Collection(""), Collection("q")})}

\* ------------------------------------------------------- ElementTree values
\* ET.Element(tag): no attribute, no text, no child.
Element(tag) == [tag |-> tag, attrib |-> {}, text |-> PyNone, children |-> <<>>]

\* `et.text(value)` of the source, read as storing value as the element's text.
SetText(et, value) == [et EXCEPT !.text = value]

\* et.set(key, value)
SetAttrib(et, key, value) ==
    [et EXCEPT !.attrib = {a \in @ : a.name # key} \cup {[name |-> key, value |-> value]}]

\* et.insert(index, child), as list.insert places it.
Insert(et, index, child) ==
    LET at == IF index > Len(et.children) THEN Len(et.children) ELSE index
    IN  [et EXCEPT !.children =
            SubSeq(@, 1, at) \o <<child>> \o SubSeq(@, at + 1, Len(@))]

\* ---------------------------------------------------- abstract_classes_to_xml
\* isinstance(obj, model.<class>) with every test answering yes.
IsInstanceAlways(o, class) == TRUE

\* isinstance(obj, model.<class>)
IsInstance(o, class) == class \in Range(o.mro)

\* `elements = []` written as a default taken once and shared by every call.
NewElementsShared(old) == old

\* elements = []
NewElements(old) == <<>>

\* The blocks of the function with the HasKind test ahead of the HasSemantics one.
BlockOrderKindFirst ==
    <<"Referable", "ModelType", "Identifiable", "HasDataSpecification", "HasKind",
      "HasSemantics", "Qualifiable">>

\* The blocks of the function with the model-type element built after the
\* Identifiable block instead of inside the Referable one.
BlockOrderModelTypeLate ==
    <<"Referable", "Identifiable", "ModelType", "HasDataSpecification",
      "HasSemantics", "HasKind", "Qualifiable">>

\* The order in which the function tests the capabilities.
BlockOrder ==
    <<"Referable", "ModelType", "Identifiable", "HasDataSpecification",
      "HasSemantics", "HasKind", "Qualifiable">>

\* The id-short, category and description elements.
ReferableElements(o) ==
    <<SetText(Element("aas:idShort"), o.id_short)>>
    \o (IF Truthy(o.category)
        THEN <<SetText(Element("aas:category"), o.category)>> ELSE <<>>)
    \o (IF Truthy(o.description)
        THEN <<SetText(Element("description"), o.description)>> ELSE <<>>)

\* What next(iter(...)) raises when the generator is empty.
StopIteration == "StopIteration"

\* The registered classes of the method resolution order, by position.
RegisteredAt(o) == {i \in 1..Len(o.mro) : o.mro[i] \in KEY_ELEMENTS_CLASSES}

\* The lookup with a default instead of the exception.
ResolveRefTypeDefault(o) ==
    IF RegisteredAt(o) = {} THEN "Referable" ELSE o.mro[Min(RegisteredAt(o))]

\* The lookup walking the method resolution order from its end.
ResolveRefTypeLast(o) ==
    IF RegisteredAt(o) = {} THEN StopIteration
    ELSE o.mro[CHOOSE i \in RegisteredAt(o) : \A j \in RegisteredAt(o) : j <= i]

\* next(iter(t for t in inspect.getmro(type(obj)) if t in model.KEY_ELEMENTS_CLASSES))
ResolveRefType(o) ==
    IF RegisteredAt(o) = {} THEN StopIteration ELSE o.mro[Min(RegisteredAt(o))]

\* The model-type element for the resolved class.
ModelTypeElements(ref_type) ==
    <<[Element("aas:modelType") EXCEPT !.text = NameDict(ref_type)]>>

\* The identification element and, for a truthy administration, its element.
IdentifiableElements(o) ==
    <<SetText(SetAttrib(Element("aas:identification"), "idType", o.id_type), o.id)>>
    \o (IF o.administration.present
        THEN <<Insert(Insert(Element("aas:administration"), 0,
                             SetText(Element("aas:version"), o.administration.version)),
                      1,
                      SetText(Element("aas:revision"), o.administration.revision))>>
        ELSE <<>>)

HasDataSpecificationElements(o) ==
    IF Truthy(o.data_specification)
    THEN <<SetText(Element("aas:embeddedDataSpecification"), o.data_specification)>>
    ELSE <<>>

HasSemanticsElements(o) ==
    IF Truthy(o.semantic_id)
    THEN <<SetText(Element("aas:semanticId"), o.semantic_id)>>
    ELSE <<>>

HasKindElements(o) ==
    IF o.kind = EnumMember("ModelingKind.TEMPLATE")
    THEN <<SetText(Element("aas:modelingKind"), o.kind)>>
    ELSE <<>>

QualifiableElements(o) ==
    IF Truthy(o.qualifier)
    THEN <<SetText(Element("aas:qualifier"), o.qualifier)>>
    ELSE <<>>

\* What one block of the function appends to elements.
BlockElements(block, o) ==
    CASE block = "Referable" ->
            IF IsInstance(o, "Referable") THEN ReferableElements(o) ELSE <<>>
      [] block = "ModelType" ->
            IF IsInstance(o, "Referable") /\ ResolveRefType(o) # StopIteration
            THEN ModelTypeElements(ResolveRefType(o)) ELSE <<>>
      [] block = "Identifiable" ->
            IF IsInstance(o, "Identifiable") THEN IdentifiableElements(o) ELSE <<>>
      [] block = "HasDataSpecification" ->
            IF IsInstance(o, "HasDataSpecification")
            THEN HasDataSpecificationElements(o) ELSE <<>>
      [] block = "HasSemantics" ->
            IF IsInstance(o, "HasSemantics") THEN HasSemanticsElements(o) ELSE <<>>
      [] block = "HasKind" ->
            IF IsInstance(o, "HasKind") THEN HasKindElements(o) ELSE <<>>
      [] block = "Qualifiable" ->
            IF IsInstance(o, "Qualifiable") THEN QualifiableElements(o) ELSE <<>>

\* The except clause: the lookup found no registered class.
BlockRaises(block, o) ==
    /\ block = "ModelType"
    /\ IsInstance(o, "Referable")
    /\ ResolveRefType(o) = StopIteration

\* The function from its i-th block on, with the elements collected so far.
RECURSIVE Run(_, _, _)
Run(o, i, els) ==
    IF i > Len(BlockOrder)
    THEN [pc |-> "returned", elements |-> els, raised |-> "none"]
    ELSE IF BlockRaises(BlockOrder[i], o)
    THEN [pc |-> "raised", elements |-> els, raised |-> "TypeError"]
    ELSE Run(o, i + 1, els \o BlockElements(BlockOrder[i], o))

\* ------------------------------------------------------------ state machine
NoOutcome == [pc |-> "none", result |-> <<>>, raised |-> "none"]

Init ==
    /\ \E b \in BaseLists : obj \in EntitiesOfClass(b)
    /\ pc = "start"
    /\ elements = <<>>
    /\ result = <<>>
    /\ raised = "none"
    /\ calls = 0
    /\ previous = NoOutcome

\* The state a call of abstract_classes_to_xml(obj) ends in.
Outcome == Run(obj, 1, NewElements(elements))

\* A caller may call abstract_classes_to_xml(obj): no call is under way, since
\* the function runs from `elements = []` to its exit without interruption.
CanCall == pc \in {"start", "returned", "raised"} /\ calls < MaxCalls

\* What the caller has seen of the call before this one.
Seen ==
    IF pc = "start" THEN NoOutcome ELSE [pc |-> pc, result |-> result, raised |-> raised]

\* A call of abstract_classes_to_xml(obj) that reaches `return elements`.
SerializeReturn ==
    /\ CanCall
    /\ Outcome.pc = "returned"
    /\ calls' = calls + 1
    /\ previous' = Seen
    /\ elements' = Outcome.elements
    /\ result' = Outcome.elements
    /\ raised' = "none"
    /\ pc' = "returned"
    /\ UNCHANGED obj

\* A call of abstract_classes_to_xml(obj) that leaves by the TypeError of the
\* except clause: the caller gets no list.
SerializeRaise ==
    /\ CanCall
    /\ Outcome.pc = "raised"
    /\ calls' = calls + 1
    /\ previous' = Seen
    /\ elements' = Outcome.elements
    /\ result' = <<>>
    /\ raised' = Outcome.raised
    /\ pc' = "raised"
    /\ UNCHANGED obj

Next ==
    \/ SerializeReturn
    \/ SerializeRaise

Spec == Init /\ [][Next]_vars

\* ---------------------------------------------------------------- properties
\* The positions of the returned elements that carry a tag.
At(tag) == {i \in 1..Len(result) : result[i].tag = tag}

\* The capability whose block emits an element, by the element's tag.
CapabilityOf(tag) ==
    CASE tag \in {"aas:idShort", "aas:category", "description", "aas:modelType"} ->
            "Referable"
      [] tag \in {"aas:identification", "aas:administration"} -> "Identifiable"
      [] tag = "aas:embeddedDataSpecification" -> "HasDataSpecification"
      [] tag = "aas:semanticId" -> "HasSemantics"
      [] tag = "aas:modelingKind" -> "HasKind"
      [] tag = "aas:qualifier" -> "Qualifiable"

\* The precedence order the external schema fixes.
Precedence ==
    <<"Referable", "Identifiable", "HasDataSpecification", "HasSemantics", "HasKind",
      "Qualifiable">>

Rank(cap) == CHOOSE k \in 1..Len(Precedence) : Precedence[k] = cap

Exhibits(class) == class \in Range(obj.mro)

Finished == calls > 0 /\ pc \in {"returned", "raised"}

BaseIndex(cap) ==
    Min({k \in 1..Len(obj.bases) : cap \in Range(Linearize(obj.bases[k]))})

C2_RequiredFieldLaw ==
    (/\ Finished
     /\ \/ Exhibits("Referable") /\ obj.id_short = Str("")
        \/ Exhibits("Identifiable") /\ obj.id = Str(""))
    => /\ pc = "raised"
       /\ raised = "MissingRequiredAttributeError"
       /\ result = <<>>

\* C3: for an object with HasKind the returned elements hold exactly one
\* modeling-kind element, with the token "Template" as its content, when kind is
\* TEMPLATE, and none when kind is INSTANCE.
C3_CompactionLaw ==
    (pc = "returned" /\ Exhibits("HasKind"))
    => /\ obj.kind = EnumMember("ModelingKind.TEMPLATE")
            => /\ Cardinality(At("aas:modelingKind")) = 1
               /\ \A i \in At("aas:modelingKind") : result[i].text = Str("Template")
       /\ obj.kind = EnumMember("ModelingKind.INSTANCE")
            => At("aas:modelingKind") = {}

\* An optional attribute contributes one element when it is present and its
\* capability is exhibited, and none otherwise.
Contributes(tag, class, present) ==
    Cardinality(At(tag)) = IF Exhibits(class) /\ present THEN 1 ELSE 0

OptionalAttributesLaw ==
    /\ Contributes("aas:category", "Referable", Truthy(obj.category))
    /\ Contributes("description", "Referable", Truthy(obj.description))
    /\ Contributes("aas:semanticId", "HasSemantics", Truthy(obj.semantic_id))
    /\ Contributes("aas:administration", "Identifiable", obj.administration.present)
    /\ Contributes("aas:qualifier", "Qualifiable", Truthy(obj.qualifier))
    /\ Contributes("aas:embeddedDataSpecification", "HasDataSpecification",
                   Truthy(obj.data_specification))

EmptyContent(et) == ~Truthy(et.text) /\ et.children = <<>>

C7_BareEntity ==
    (Finished /\ Range(obj.mro) \cap Capabilities = {})
    => /\ pc = "returned"
       /\ raised = "none"
       /\ result = <<>>

\* A call returned for an instance of a class without capabilities.
C7_Witness ==
    /\ pc = "returned"
    /\ obj.bases = <<"Permission">>
    /\ Range(obj.mro) \cap Capabilities = {}

\* C8: for an Identifiable object with a non-empty id whose call returns, the
\* identification element carries as idType the string token IDENTIFIER_TYPES
\* gives for the object's id_type, not the enumeration member, and the id as
\* its content.
C8_IdTypeToken ==
    (pc = "returned" /\ Exhibits("Identifiable") /\ Truthy(obj.id))
    => /\ Cardinality(At("aas:identification")) = 1
       /\ \A i \in At("aas:identification") :
             /\ result[i].attrib =
                   {[name |-> "idType",
                     value |-> Str(Lookup(IDENTIFIER_TYPES, obj.id_type.val))]}
             /\ result[i].text = obj.id

\* A table gives every member of its enumeration exactly one token and gives
\* no token to two members.
TotalInjective(table, enumeration) ==
    /\ Keys(table) = enumeration
    /\ \A i, j \in 1..Len(table) :
          i # j => table[i][1] # table[j][1] /\ table[i][2] # table[j][2]

TablesTotalInjective ==
    /\ TotalInjective(MODELING_KIND, ModelingKind)
    /\ TotalInjective(ASSET_KIND, AssetKind)
    /\ TotalInjective(KEY_ELEMENTS, KeyElements)
    /\ TotalInjective(KEY_TYPES, KeyType)
    /\ TotalInjective(IDENTIFIER_TYPES, IdentifierType)
    /\ TotalInjective(ENTITY_TYPES, EntityType)

ExpectedAdministrationChildren ==
    (IF Truthy(obj.administration.version)
     THEN <<SetText(Element("aas:version"), obj.administration.version)>> ELSE <<>>)
    \o (IF Truthy(obj.administration.revision)
        THEN <<SetText(Element("aas:revision"), obj.administration.revision)>> ELSE <<>>)

\* C11: for an Identifiable object with an administration whose call returns, the
\* administration element's children are the version element, then the revision
\* element, a child being left out when its value is absent: only a version
\* gives exactly the version child, only a revision exactly the revision child.
C11_AdministrationChildren ==
    (pc = "returned" /\ Exhibits("Identifiable") /\ obj.administration.present)
    => /\ Cardinality(At("aas:administration")) = 1
       /\ \A i \in At("aas:administration") :
             result[i].children = ExpectedAdministrationChildren

\* The tags of the returned elements, in order.
ResultTags == [i \in 1..Len(result) |-> result[i].tag]

\* The tags the claim gives the Referable contribution.
ReferableTags ==
    <<"aas:idShort">>
    \o (IF Truthy(obj.category) THEN <<"aas:category">> ELSE <<>>)
    \o (IF Truthy(obj.description) THEN <<"description">> ELSE <<>>)
    \o <<"aas:modelType">>

Entries(table) == Cardinality(Keys(table))

\* The sizes stated for the five small tables.
SmallTableSizes ==
    /\ Entries(KEY_TYPES) = 5
    /\ Entries(IDENTIFIER_TYPES) = 3
    /\ Entries(ENTITY_TYPES) = 2
    /\ Entries(MODELING_KIND) = 2
    /\ Entries(ASSET_KIND) = 2

KeyElementsEntries == Entries(KEY_ELEMENTS)

\* C13 as stated: whenever a call has ended, the tables, which no call changes,
\* have the stated sizes: KEY_ELEMENTS 22 entries, KEY_TYPES 5, IDENTIFIER_TYPES 3,
\* ENTITY_TYPES 2, MODELING_KIND 2 and ASSET_KIND 2.
C13_StatedSizes ==
    Finished => (KeyElementsEntries = 22 /\ SmallTableSizes)

\* C13, amended: whenever a call has ended, the tables have the sizes
\* KEY_ELEMENTS 24 entries, KEY_TYPES 5, IDENTIFIER_TYPES 3, ENTITY_TYPES 2,
\* MODELING_KIND 2 and ASSET_KIND 2.
C13_TableSizes ==
    Finished => (KeyElementsEntries = 24 /\ SmallTableSizes)

\* A call has ended and KEY_ELEMENTS holds, past the 22 element classes, the
\* tokens of the two kinds of reference as its 23rd and 24th items.
C13_Witness ==
    /\ Finished
    /\ Len(KEY_ELEMENTS) = 24
    /\ KEY_ELEMENTS[23] = <<"KeyElements.GLOBAL_REFERENCE", "GlobalReference">>
    /\ KEY_ELEMENTS[24] = <<"KeyElements.FRAGMENT_REFERENCE", "FragmentReference">>

====
